---- MODULE Spec2Model ----
(***************************************************************************)
(* The tabular-document engine of Tabito.API (src/functions/main.py): the  *)
(* callable handlers that create, clone, update and delete a user's tables *)
(* and that add, update and delete the columns and rows of one table, over *)
(* a Firestore collection users/{uid}/tables/{tableId}.                    *)
(*                                                                         *)
(* A Python dict is a function on the finite set of its keys, a Python     *)
(* list is a sequence (the code's 0-based index i is position i + 1), a    *)
(* Python str is a sequence of characters. A value that the code only      *)
(* tests for truth (a tableId, a columnKey, a Name, a column, a row) has   *)
(* its falsy inputs (absent, None, empty) modelled by the empty one.       *)
(* The timestamps createdAt/updatedAt that create_table stores are left    *)
(* out of the documents: the handlers copy them and never test them.       *)
(***************************************************************************)
EXTENDS Integers, Sequences, FiniteSets, TLC

VARIABLES
    store,      \* the Firestore documents: a function from the paths <<uid, tableId>> that exist to their fields
    nextId,     \* how many auto-ids the store has issued (collection.document())
    last,       \* the last completed call: its handler and the result it returned
    inflight    \* per worker, its request and where it is: idle, read (holding the write it computed) or done

vars == <<store, nextId, last, inflight>>

----------------------------------------------------------------------------
(* Bounds of the model *)

\* longest Columns list a document holds
MaxCols == 2
\* longest Rows list a document holds
MaxRows == 2
\* longest Values list of an imported row
MaxVals == 3

----------------------------------------------------------------------------
(* Python values *)

EmptyDict == [k \in {} |-> k]

\* d.update(u): the keys of u overwrite, every other key keeps its value
dict_update(d, u) ==
    [k \in (DOMAIN d) \cup (DOMAIN u) |-> IF k \in DOMAIN u THEN u[k] ELSE d[k]]

\* d.pop(k, None) / del d[k] when k in d
dict_pop(d, k) == [x \in (DOMAIN d) \ {k} |-> d[x]]

\* d.get(k, default)
dict_get(d, k, default) == IF k \in DOMAIN d THEN d[k] ELSE default

\* list.pop() in place of list.pop(index): the last element goes
list_pop_last(xs, index) == SubSeq(xs, 1, Len(xs) - 1)

\* list.pop(index) for 0 <= index < len(list)
list_pop(xs, index) == SubSeq(xs, 1, index) \o SubSeq(xs, index + 2, Len(xs))

PyStr(chars) == [type |-> "str", val |-> chars]
PyBool(b) == [type |-> "bool", val |-> IF b THEN <<"1">> ELSE <<"0">>]
PyNone == [type |-> "NoneType", val |-> <<>>]
PyInt(n) == [type |-> "int", val |-> <<n>>]

UpperCase == <<"A", "E", "F", "L", "R", "S", "T", "U", "X">>
LowerCase == <<"a", "e", "f", "l", "r", "s", "t", "u", "x">>
Whitespace == {" ", "\t", "\n"}

\* str.lower(), character by character
lower_char(c) ==
    IF \E i \in 1..Len(UpperCase) : UpperCase[i] = c
    THEN LowerCase[CHOOSE i \in 1..Len(UpperCase) : UpperCase[i] = c]
    ELSE c

str_lower(s) == [i \in 1..Len(s) |-> lower_char(s[i])]

\* str.strip(): leading and trailing whitespace removed
RECURSIVE str_lstrip(_)
str_lstrip(s) ==
    IF s # <<>> /\ Head(s) \in Whitespace THEN str_lstrip(Tail(s)) ELSE s

RECURSIVE str_rstrip(_)
str_rstrip(s) ==
    IF s # <<>> /\ s[Len(s)] \in Whitespace
    THEN str_rstrip(SubSeq(s, 1, Len(s) - 1))
    ELSE s

str_strip(s) == str_rstrip(str_lstrip(s))

----------------------------------------------------------------------------
(* The document store *)

\* the ids the store hands out, in the order it issues them: a store of two documents
IdPool == <<"t1", "t2">>

\* the user left out of the path: db.collection("tables").document(table_id)
table_ref_any_user(user_id, table_id) == <<"u1", table_id>>

\* db.collection("users").document(user_id).collection("tables").document(table_id)
table_ref(user_id, table_id) == <<user_id, table_id>>

\* an id that is not fresh: the first of the pool again
new_table_ref_reused(user_id, n) == <<user_id, IdPool[1]>>

\* db.collection("users").document(user_id).collection("tables").document(): a fresh id
new_table_ref(user_id, n) == <<user_id, IdPool[n + 1]>>

\* DocumentReference.get().exists
doc_exists(db, doc_ref) == doc_ref \in DOMAIN db

\* DocumentReference.set(data): creates or replaces the document
firestore_set(db, doc_ref, data) ==
    [r \in (DOMAIN db) \cup {doc_ref} |-> IF r = doc_ref THEN data ELSE db[r]]

\* DocumentReference.update(fields) on a document that exists: the named
\* fields are replaced whole, the others kept
firestore_update(db, doc_ref, fields) ==
    [r \in DOMAIN db |-> IF r = doc_ref THEN dict_update(db[r], fields) ELSE db[r]]

\* DocumentReference.delete(): no error when the document does not exist
firestore_delete(db, doc_ref) == [r \in (DOMAIN db) \ {doc_ref} |-> db[r]]

----------------------------------------------------------------------------
(* What a handler does: the result it returns and the one store call it ends with *)

NoRef == <<"", "">>

Return(result) ==
    [result |-> result, write |-> "none", ref |-> NoRef, fields |-> EmptyDict]

ThenUpdate(doc_ref, fields) ==
    [result |-> "success", write |-> "update", ref |-> doc_ref, fields |-> fields]

ThenSet(doc_ref, data) ==
    [result |-> "tableId", write |-> "set", ref |-> doc_ref, fields |-> data]

ThenDelete(doc_ref) ==
    [result |-> "success", write |-> "delete", ref |-> doc_ref, fields |-> EmptyDict]

\* the store after the handler's store call; update() of a missing document
\* raises NotFound and writes nothing
Apply(db, o) ==
    CASE o.write = "none" -> db
      [] o.write = "set" -> firestore_set(db, o.ref, o.fields)
      [] o.write = "delete" -> firestore_delete(db, o.ref)
      [] o.write = "update" ->
            IF doc_exists(db, o.ref) THEN firestore_update(db, o.ref, o.fields) ELSE db

\* what the caller gets back
Result(db, o) ==
    IF o.write = "update" /\ ~doc_exists(db, o.ref) THEN "NotFound raised" ELSE o.result

----------------------------------------------------------------------------
(* Helpers *)

\* the lookup without the test of doc.exists, a missing document read as a
\* table with no columns and no rows
get_table_doc_unchecked(db, user_id, table_id) ==
    IF table_id = ""
    THEN [error |-> "tableId es requerido", doc_ref |-> NoRef, doc |-> EmptyDict]
    ELSE LET doc_ref == table_ref(user_id, table_id) IN
         [error |-> "", doc_ref |-> doc_ref,
          doc |-> IF doc_exists(db, doc_ref) THEN db[doc_ref]
                  ELSE [Name |-> "", Columns |-> <<>>, Rows |-> <<>>, Metadata |-> EmptyDict]]

\* get_table_doc: the ValueError it raises is returned in error ("" when none)
get_table_doc(db, user_id, table_id) ==
    IF table_id = ""
    THEN [error |-> "tableId es requerido", doc_ref |-> NoRef, doc |-> EmptyDict]
    ELSE LET doc_ref == table_ref(user_id, table_id) IN
         IF ~doc_exists(db, doc_ref)
         THEN [error |-> "Table not found", doc_ref |-> doc_ref, doc |-> EmptyDict]
         ELSE [error |-> "", doc_ref |-> doc_ref, doc |-> db[doc_ref]]

StrTrue == <<"t", "r", "u", "e">>
StrFalse == <<"f", "a", "l", "s", "e">>

\* the conversion without strip(): val.lower() in ("true", "false")
coerce_unstripped(val) ==
    IF val.type = "str" /\ str_lower(val.val) \in {StrTrue, StrFalse}
    THEN PyBool(str_lower(val.val) = StrTrue)
    ELSE val

\* the boolean conversion of one raw value
coerce(val) ==
    IF val.type = "str" /\ str_lower(str_strip(val.val)) \in {StrTrue, StrFalse}
    THEN PyBool(str_lower(str_strip(val.val)) = StrTrue)
    ELSE val

\* map_row_values: the loop over enumerate(columns), a later column of the
\* same Key overwriting an earlier one
RECURSIVE map_row_values_from(_, _, _, _)
map_row_values_from(columns, values, i, mapped) ==
    IF i > Len(columns) THEN mapped
    ELSE LET key == columns[i]["Key"]
             val == IF i <= Len(values) THEN values[i] ELSE PyNone
         IN map_row_values_from(columns, values, i + 1,
                                dict_update(mapped, [k \in {key} |-> coerce(val)]))

\* the values read one position late: values[i - 1] for column i
map_row_values_one_late(columns, values) ==
    map_row_values_from(columns, <<PyNone>> \o values, 1, EmptyDict)

map_row_values(columns, values) == map_row_values_from(columns, values, 1, EmptyDict)

----------------------------------------------------------------------------
(* Tables *)

\* the document written before Name and Columns are looked at
create_table_run_set_first(db, n, user_id, data) ==
    LET name == dict_get(data, "Name", "")
        columns == dict_get(data, "Columns", <<>>)
        written == ThenSet(new_table_ref(user_id, n),
                           [Name |-> name, Columns |-> columns, Rows |-> <<>>,
                            Metadata |-> dict_get(data, "Metadata", EmptyDict)])
    IN IF name = "" \/ columns = <<>>
       THEN [written EXCEPT !.result = "Name y Columns son requeridos"]
       ELSE written

\* only Name required: if not name
create_table_run_name_only(db, n, user_id, data) ==
    LET name == dict_get(data, "Name", "")
        columns == dict_get(data, "Columns", <<>>)
    IN IF name = ""
       THEN Return("Name y Columns son requeridos")
       ELSE ThenSet(new_table_ref(user_id, n),
                    [Name |-> name, Columns |-> columns, Rows |-> <<>>,
                     Metadata |-> dict_get(data, "Metadata", EmptyDict)])

create_table_run(db, n, user_id, data) ==
    LET name == dict_get(data, "Name", "")
        columns == dict_get(data, "Columns", <<>>)
        rows == dict_get(data, "Rows", <<>>)
    IN IF name = "" \/ columns = <<>>
       THEN Return("Name y Columns son requeridos")
       ELSE LET table_doc == new_table_ref(user_id, n)
                mapped_rows ==
                    [i \in 1..Len(rows) |->
                        map_row_values(columns, dict_get(rows[i], "Values", <<>>))]
            IN ThenSet(table_doc,
                       [Name |-> name, Columns |-> columns, Rows |-> mapped_rows,
                        Metadata |-> dict_get(data, "Metadata", EmptyDict)])

update_table_run(db, user_id, table_id, updates) ==
    IF table_id = ""
    THEN Return("tableId es requerido")
    ELSE ThenUpdate(table_ref(user_id, table_id), updates)

delete_table_run(db, user_id, table_id) ==
    IF table_id = ""
    THEN Return("tableId es requerido")
    ELSE ThenDelete(table_ref(user_id, table_id))

clone_table_run(db, n, user_id, table_id) ==
    LET got == get_table_doc(db, user_id, table_id) IN
    IF got.error # ""
    THEN Return(got.error)
    ELSE ThenSet(new_table_ref(user_id, n), got.doc)

----------------------------------------------------------------------------
(* Columns *)

add_column_run(db, user_id, table_id, column) ==
    IF column = EmptyDict
    THEN Return("column es requerido")
    ELSE LET got == get_table_doc(db, user_id, table_id) IN
         IF got.error # ""
         THEN Return(got.error)
         ELSE LET columns == dict_get(got.doc, "Columns", <<>>) IN
              ThenUpdate(got.doc_ref, [Columns |-> Append(columns, column)])

\* the loop without its break: every column of that Key is updated
update_every(columns, key, updates) ==
    [i \in 1..Len(columns) |->
        IF columns[i]["Key"] = key THEN dict_update(columns[i], updates) ELSE columns[i]]

\* the loop of update_column: the first column of that Key is updated, then break
update_first(columns, key, updates) ==
    IF \E i \in 1..Len(columns) : columns[i]["Key"] = key
    THEN LET i == CHOOSE i \in 1..Len(columns) :
                      /\ columns[i]["Key"] = key
                      /\ \A j \in 1..(i - 1) : columns[j]["Key"] # key
         IN [columns EXCEPT ![i] = dict_update(@, updates)]
    ELSE columns

update_column_run(db, user_id, table_id, key, updates) ==
    IF key = ""
    THEN Return("columnKey es requerido")
    ELSE LET got == get_table_doc(db, user_id, table_id) IN
         IF got.error # ""
         THEN Return(got.error)
         ELSE LET columns == dict_get(got.doc, "Columns", <<>>) IN
              ThenUpdate(got.doc_ref, [Columns |-> update_first(columns, key, updates)])

\* the filter that keeps no column
without_key_none_kept(columns, key) == <<>>

\* [col for col in columns if col["Key"] != key]
without_key(columns, key) == SelectSeq(columns, LAMBDA col : col["Key"] # key)

\* the cleanup of the rows left out
pop_key_skipped(rows, key) == rows

\* for row in rows: row.pop(key, None)
pop_key(rows, key) == [i \in 1..Len(rows) |-> dict_pop(rows[i], key)]

delete_column_run(db, user_id, table_id, key) ==
    IF key = ""
    THEN Return("columnKey es requerido")
    ELSE LET got == get_table_doc(db, user_id, table_id) IN
         IF got.error # ""
         THEN Return(got.error)
         ELSE LET columns == without_key(dict_get(got.doc, "Columns", <<>>), key)
                  rows == pop_key(dict_get(got.doc, "Rows", <<>>), key)
              IN ThenUpdate(got.doc_ref, [Columns |-> columns, Rows |-> rows])

----------------------------------------------------------------------------
(* Rows *)

\* a rowIndex argument: <<>> when absent (None), <<i>> for the integer i
NoIndex == <<>>

\* index > len(rows) in place of index >= len(rows)
index_out_of_range_off_by_one(index, rows) == index < 0 \/ index > Len(rows)

\* index < 0 or index >= len(rows)
index_out_of_range(index, rows) == index < 0 \/ index >= Len(rows)

\* the Columns it read written back with the Rows: update({"Columns": ..., "Rows": rows})
add_row_run_writes_columns(db, user_id, table_id, row) ==
    IF row = EmptyDict
    THEN Return("row son requeridos")
    ELSE LET got == get_table_doc(db, user_id, table_id) IN
         IF got.error # ""
         THEN Return(got.error)
         ELSE LET rows == dict_get(got.doc, "Rows", <<>>) IN
              ThenUpdate(got.doc_ref, [Columns |-> dict_get(got.doc, "Columns", <<>>),
                                       Rows |-> Append(rows, row)])

\* the row put first: rows.insert(0, row)
add_row_run_insert_first(db, user_id, table_id, row) ==
    IF row = EmptyDict
    THEN Return("row son requeridos")
    ELSE LET got == get_table_doc(db, user_id, table_id) IN
         IF got.error # ""
         THEN Return(got.error)
         ELSE LET rows == dict_get(got.doc, "Rows", <<>>) IN
              ThenUpdate(got.doc_ref, [Rows |-> <<row>> \o rows])

add_row_run(db, user_id, table_id, row) ==
    IF row = EmptyDict
    THEN Return("row son requeridos")
    ELSE LET got == get_table_doc(db, user_id, table_id) IN
         IF got.error # ""
         THEN Return(got.error)
         ELSE LET rows == dict_get(got.doc, "Rows", <<>>) IN
              ThenUpdate(got.doc_ref, [Rows |-> Append(rows, row)])

\* the row replaced by the updates: rows[index] = updates
update_row_run_replaces(db, user_id, table_id, index, updates) ==
    IF index = NoIndex
    THEN Return("rowIndex son requeridos")
    ELSE LET got == get_table_doc(db, user_id, table_id) IN
         IF got.error # ""
         THEN Return(got.error)
         ELSE LET rows == dict_get(got.doc, "Rows", <<>>) IN
              IF index_out_of_range(index[1], rows)
              THEN Return("Row index out of range")
              ELSE ThenUpdate(got.doc_ref, [Rows |-> [rows EXCEPT ![index[1] + 1] = updates]])

update_row_run(db, user_id, table_id, index, updates) ==
    IF index = NoIndex
    THEN Return("rowIndex son requeridos")
    ELSE LET got == get_table_doc(db, user_id, table_id) IN
         IF got.error # ""
         THEN Return(got.error)
         ELSE LET rows == dict_get(got.doc, "Rows", <<>>) IN
              IF index_out_of_range(index[1], rows)
              THEN Return("Row index out of range")
              ELSE ThenUpdate(got.doc_ref,
                       [Rows |-> [rows EXCEPT ![index[1] + 1] = dict_update(@, updates)]])

delete_row_run(db, user_id, table_id, index) ==
    IF index = NoIndex
    THEN Return("rowIndex son requeridos")
    ELSE LET got == get_table_doc(db, user_id, table_id) IN
         IF got.error # ""
         THEN Return(got.error)
         ELSE LET rows == dict_get(got.doc, "Rows", <<>>) IN
              IF index_out_of_range(index[1], rows)
              THEN Return("Row index out of range")
              ELSE ThenUpdate(got.doc_ref, [Rows |-> list_pop(rows, index[1])])

----------------------------------------------------------------------------
(* The handlers as steps: a whole handler, its store call included, is one step *)

WithinBounds(db) ==
    \A r \in DOMAIN db : Len(db[r]["Columns"]) <= MaxCols /\ Len(db[r]["Rows"]) <= MaxRows

Idle == [op |-> "idle"]
Workers == {"w1", "w2"}

\* the handler's store call and the result it returns
Do(op, o) ==
    /\ last' = [op |-> op, result |-> Result(store, o)]
    /\ store' = Apply(store, o)
    /\ WithinBounds(store')
    /\ nextId' = IF o.write = "set" THEN nextId + 1 ELSE nextId

create_table(user_id, data) ==
    /\ nextId < Len(IdPool)
    /\ Do("create_table", create_table_run(store, nextId, user_id, data))
    /\ UNCHANGED inflight

update_table(user_id, table_id, updates) ==
    /\ Do("update_table", update_table_run(store, user_id, table_id, updates))
    /\ UNCHANGED inflight

delete_table(user_id, table_id) ==
    /\ Do("delete_table", delete_table_run(store, user_id, table_id))
    /\ UNCHANGED inflight

clone_table(user_id, table_id) ==
    /\ nextId < Len(IdPool)
    /\ Do("clone_table", clone_table_run(store, nextId, user_id, table_id))
    /\ UNCHANGED inflight

add_column(user_id, table_id, column) ==
    /\ Do("add_column", add_column_run(store, user_id, table_id, column))
    /\ UNCHANGED inflight

update_column(user_id, table_id, key, updates) ==
    /\ Do("update_column", update_column_run(store, user_id, table_id, key, updates))
    /\ UNCHANGED inflight

delete_column(user_id, table_id, key) ==
    /\ Do("delete_column", delete_column_run(store, user_id, table_id, key))
    /\ UNCHANGED inflight

add_row(user_id, table_id, row) ==
    /\ Do("add_row", add_row_run(store, user_id, table_id, row))
    /\ UNCHANGED inflight

update_row(user_id, table_id, index, updates) ==
    /\ Do("update_row", update_row_run(store, user_id, table_id, index, updates))
    /\ UNCHANGED inflight

delete_row(user_id, table_id, index) ==
    /\ Do("delete_row", delete_row_run(store, user_id, table_id, index))
    /\ UNCHANGED inflight

----------------------------------------------------------------------------
(* The requests a caller can send *)

Users == {"u1", "u2"}
Keys == {"a", "b"}

\* tableId arguments: absent, an id the store has issued or may issue
TableIdArgs == {""} \cup {IdPool[i] : i \in 1..Len(IdPool)}

\* columnKey arguments: absent or a key
KeyArgs == {""} \cup Keys

ColA == [Key |-> "a", Label |-> "x"]
ColB == [Key |-> "b", Label |-> "x"]

\* column arguments: absent, or a column with its Key and a Label
ColumnArgs == {EmptyDict, ColA, ColB}

\* updates of a column: nothing, a new Label, a new Key
ColumnUpdates == {EmptyDict, [Label |-> "y"]} \cup {[Key |-> k] : k \in Keys}

CellX == PyStr(<<"x">>)
CellY == PyStr(<<"y">>)

\* row arguments and updates of a row: absent, or fields under some keys
RowArgs == {EmptyDict, [a |-> CellX], [b |-> CellX], [a |-> CellY, b |-> CellX]}

\* rowIndex arguments: absent, or an integer from below to beyond every list
IndexArgs == {NoIndex} \cup {<<i>> : i \in -1..MaxRows}

----------------------------------------------------------------------------
(* The engine: every handler, on a store that starts empty *)

\* create_table payloads: Name or Columns absent, empty or present
CreateArgs ==
    {[Columns |-> <<ColA>>], [Name |-> "", Columns |-> <<ColA>>], [Name |-> "T"],
     [Name |-> "T", Columns |-> <<>>], [Name |-> "T", Columns |-> <<ColA>>]}

\* update_table payloads
TableUpdates == {[Name |-> "U"]}

\* the arguments of the column and row handlers: absent, or one value each
EngineColumnArgs == {EmptyDict, ColB}
EngineKeyArgs == {"", "b"}
EngineColumnUpdates == {EmptyDict}
EngineRowArgs == {EmptyDict, [a |-> CellX]}
EngineIndexArgs == {NoIndex, <<0>>, <<MaxRows>>}

\* (user, tableId) arguments: each user with each id, and no tableId
EngineTargets == (Users \X (TableIdArgs \ {""})) \cup {<<"u1", "">>}

Init ==
    /\ store = EmptyDict
    /\ nextId = 0
    /\ last = [op |-> "none", result |-> "none"]
    /\ inflight = [w \in Workers |-> Idle]

\* the two users are interchangeable: the first document stored is u1's
Creator(u) == nextId = 0 => u = "u1"

Next ==
    \/ \E u \in Users, data \in CreateArgs : Creator(u) /\ create_table(u, data)
    \/ \E c \in EngineTargets, updates \in TableUpdates : update_table(c[1], c[2], updates)
    \/ \E c \in EngineTargets : delete_table(c[1], c[2])
    \/ \E c \in EngineTargets : clone_table(c[1], c[2])
    \/ \E c \in EngineTargets, column \in EngineColumnArgs : add_column(c[1], c[2], column)
    \/ \E c \in EngineTargets, key \in EngineKeyArgs, updates \in EngineColumnUpdates :
            update_column(c[1], c[2], key, updates)
    \/ \E c \in EngineTargets, key \in EngineKeyArgs : delete_column(c[1], c[2], key)
    \/ \E c \in EngineTargets, row \in EngineRowArgs : add_row(c[1], c[2], row)
    \/ \E c \in EngineTargets, index \in EngineIndexArgs, updates \in EngineRowArgs :
            update_row(c[1], c[2], index, updates)
    \/ \E c \in EngineTargets, index \in EngineIndexArgs : delete_row(c[1], c[2], index)

Spec == Init /\ [][Next]_vars

\* the engine once more, for what is checked on every pair of calls in every state
PairSpec == Init /\ [][Next]_vars

----------------------------------------------------------------------------
(* One table: the column and row handlers with every argument, on a table   *)
(* that create_table has made with pairwise distinct column Keys            *)

TableCreateArgs ==
    {[Name |-> "T", Columns |-> columns, Rows |-> rows] :
        columns \in {<<ColA>>, <<ColA, ColB>>},
        rows \in {<<>>, <<[Values |-> <<CellX>>]>>}}

TableInit ==
    /\ \E data \in TableCreateArgs :
            store = Apply(EmptyDict, create_table_run(EmptyDict, 0, "u1", data))
    /\ nextId = 1
    /\ last = [op |-> "create_table", result |-> "tableId"]
    /\ inflight = [w \in Workers |-> Idle]

\* the table, a table that does not exist, the table as another user
TableTargets == {<<"u1", "t1">>, <<"u1", "t2">>, <<"u2", "t1">>}

TableNext ==
    \/ \E c \in TableTargets, column \in ColumnArgs : add_column(c[1], c[2], column)
    \/ \E c \in TableTargets, key \in KeyArgs, updates \in ColumnUpdates :
            update_column(c[1], c[2], key, updates)
    \/ \E c \in TableTargets, key \in KeyArgs : delete_column(c[1], c[2], key)
    \/ \E c \in TableTargets, row \in {EmptyDict, [a |-> CellY, b |-> CellX]} :
            add_row(c[1], c[2], row)
    \/ \E c \in TableTargets, index \in IndexArgs : update_row(c[1], c[2], index, [b |-> CellX])
    \/ \E c \in TableTargets, index \in IndexArgs : delete_row(c[1], c[2], index)

TableSpec == TableInit /\ [][TableNext]_vars

----------------------------------------------------------------------------
(* The rows of one table: the row handlers with every argument *)

RowNext ==
    \/ \E c \in TableTargets, row \in RowArgs : add_row(c[1], c[2], row)
    \/ \E c \in TableTargets, index \in IndexArgs, updates \in RowArgs :
            update_row(c[1], c[2], index, updates)
    \/ \E c \in TableTargets, index \in IndexArgs : delete_row(c[1], c[2], index)

RowSpec == TableInit /\ [][RowNext]_vars

----------------------------------------------------------------------------
(* The columns of one table: the column handlers with every argument *)

ColumnNext ==
    \/ \E c \in TableTargets, column \in ColumnArgs : add_column(c[1], c[2], column)
    \/ \E c \in TableTargets, key \in KeyArgs, updates \in ColumnUpdates :
            update_column(c[1], c[2], key, updates)
    \/ \E c \in TableTargets, key \in KeyArgs : delete_column(c[1], c[2], key)

ColumnSpec == TableInit /\ [][ColumnNext]_vars

----------------------------------------------------------------------------
(* Concurrent requests on one table: a handler reads its document in       *)
(* get_table_doc and writes it back in doc_ref.update, two separate store   *)
(* calls, and the requests of two function instances interleave between    *)
(* them. Each worker serves one request.                                    *)

\* the handler up to the end of its read, for the request c = <<handler,
\* arguments>>: it returns its error there, or it holds the write it has
\* computed from the document it read
Read(w, c, o) ==
    /\ inflight[w] = Idle
    /\ IF o.write = "none"
       THEN /\ inflight' = [inflight EXCEPT
                               ![w] = [op |-> c[1], call |-> c, pc |-> "done", outcome |-> o,
                                       result |-> o.result]]
            /\ last' = [op |-> c[1], result |-> o.result]
       ELSE /\ inflight' = [inflight EXCEPT
                               ![w] = [op |-> c[1], call |-> c, pc |-> "read", outcome |-> o]]
            /\ last' = last

add_column_read(w, user_id, table_id, column) ==
    /\ Read(w, <<"add_column", column, <<>>>>,
            add_column_run(store, user_id, table_id, column))
    /\ UNCHANGED <<store, nextId>>

update_column_read(w, user_id, table_id, key, updates) ==
    /\ Read(w, <<"update_column", key, updates>>,
            update_column_run(store, user_id, table_id, key, updates))
    /\ UNCHANGED <<store, nextId>>

delete_column_read(w, user_id, table_id, key) ==
    /\ Read(w, <<"delete_column", key, <<>>>>,
            delete_column_run(store, user_id, table_id, key))
    /\ UNCHANGED <<store, nextId>>

add_row_read(w, user_id, table_id, row) ==
    /\ Read(w, <<"add_row", row, <<>>>>, add_row_run(store, user_id, table_id, row))
    /\ UNCHANGED <<store, nextId>>

update_row_read(w, user_id, table_id, index, updates) ==
    /\ Read(w, <<"update_row", index, updates>>,
            update_row_run(store, user_id, table_id, index, updates))
    /\ UNCHANGED <<store, nextId>>

delete_row_read(w, user_id, table_id, index) ==
    /\ Read(w, <<"delete_row", index, <<>>>>,
            delete_row_run(store, user_id, table_id, index))
    /\ UNCHANGED <<store, nextId>>

\* the doc_ref.update that ends the handler, and its return
doc_ref_update(w) ==
    /\ inflight[w] # Idle
    /\ inflight[w].pc = "read"
    /\ Do(inflight[w].op, inflight[w].outcome)
    /\ inflight' = [inflight EXCEPT
                       ![w] = [op |-> inflight[w].op, call |-> inflight[w].call, pc |-> "done",
                               outcome |-> inflight[w].outcome, result |-> last'.result]]

\* the table, and a table that does not exist
ConcTargets == {<<"u1", "t1">>, <<"u1", "t2">>}

ConcNext ==
    \/ \E w \in Workers, c \in ConcTargets, column \in {EmptyDict, ColB} :
            add_column_read(w, c[1], c[2], column)
    \/ \E w \in Workers, c \in ConcTargets, key \in {"", "a"} :
            update_column_read(w, c[1], c[2], key, [Label |-> "y"])
    \/ \E w \in Workers, c \in ConcTargets, key \in {"", "a"} :
            delete_column_read(w, c[1], c[2], key)
    \/ \E w \in Workers, c \in ConcTargets, row \in {EmptyDict, [a |-> CellX], [a |-> CellY]} :
            add_row_read(w, c[1], c[2], row)
    \/ \E w \in Workers, c \in ConcTargets, index \in {NoIndex, <<0>>, <<MaxRows>>} :
            update_row_read(w, c[1], c[2], index, [a |-> CellY])
    \/ \E w \in Workers, c \in ConcTargets, index \in {NoIndex, <<0>>, <<MaxRows>>} :
            delete_row_read(w, c[1], c[2], index)
    \/ \E w \in Workers : doc_ref_update(w)

ConcSpec == TableInit /\ [][ConcNext]_vars

----------------------------------------------------------------------------
(* The mapper: create_table importing one row of positional Values, which   *)
(* is the only place where map_row_values is called                         *)

\* all lists over S of lengths lo..hi
ListsOf(S, lo, hi) == UNION {[1..n -> S] : n \in lo..hi}

StrUpperTrue == <<"T", "R", "U", "E">>
StrPaddedTrue == <<" ", "T", "r", "u", "e", " ">>
StrPaddedFalse == <<" ", "F", "A", "L", "S", "E">>
StrInnerSpace == <<"t", "r", " ", "u", "e">>
StrTru == <<"t", "r", "u">>
StrTruee == <<"t", "r", "u", "e", "e">>
StrTabTrue == <<"\t", "t", "r", "u", "e">>
StrFalsePadded == <<"f", "a", "l", "s", "e", " ", " ">>
StrFals == <<"f", "a", "l", "s">>

\* column lists with and without a repeated Key, value lists shorter than,
\* as long as and longer than them
PositionalColumns == ListsOf({ColA, ColB}, 1, MaxCols)
PositionalValues == ListsOf({PyStr(StrUpperTrue), CellX, PyInt(1)}, 0, MaxVals)

\* the request that imports one row
Import(columns, values) == [Name |-> "T", Columns |-> columns, Rows |-> <<[Values |-> values]>>]

PositionalArgs ==
    {Import(columns, values) : columns \in PositionalColumns, values \in PositionalValues}

\* the raw values of every kind
RawValues ==
    {PyStr(chars) : chars \in {StrTrue, StrFalse, StrUpperTrue, StrPaddedTrue, StrPaddedFalse,
                               StrInnerSpace, StrTru, StrTruee, StrTabTrue, StrFalsePadded,
                               StrFals, <<>>, <<" ">>, <<"x">>, <<"y">>, <<"0">>, <<"1">>,
                               <<"n", "o">>, <<"t">>, <<"f">>}}
        \cup {PyBool(TRUE), PyBool(FALSE), PyNone, PyInt(0), PyInt(1)}

CoercionArgs == {Import(<<ColA>>, <<raw>>) : raw \in RawValues}

\* one imported table at a time
MapperNext ==
    \/ \E data \in PositionalArgs : DOMAIN store = {} /\ create_table("u1", data)
    \/ \E data \in CoercionArgs : DOMAIN store = {} /\ create_table("u1", data)
    \/ \E t \in TableIdArgs : doc_exists(store, <<"u1", t>>) /\ delete_table("u1", t)

MapperSpec == Init /\ [][MapperNext]_vars

----------------------------------------------------------------------------
(* Claims about the columns and rows of one table (TableSpec) *)

Succeeded == last'.result = "success"

\* the step is a call of that handler
Called(op) == last'.op = op

KeysOf(columns) == {columns[i]["Key"] : i \in 1..Len(columns)}

\* C1 (I1): in every stored table no two entries of Columns have the same Key,
\* after any sequence of column and row operations on a table created with
\* pairwise distinct Keys.
C1_ColumnKeysUnique ==
    \A r \in DOMAIN store :
        LET columns == store[r]["Columns"] IN
        \A i, j \in 1..Len(columns) : i # j => columns[i]["Key"] # columns[j]["Key"]

\* C2: add_column with a column whose Key is already the Key of a column of
\* the table is rejected: the stored Columns list is the same before and after.
C2_AddDuplicateRejected ==
    [][\A u \in Users, t \in TableIdArgs, column \in ColumnArgs \ {EmptyDict} :
          (/\ Called("add_column")
           /\ doc_exists(store, <<u, t>>)
           /\ column["Key"] \in KeysOf(store[<<u, t>>]["Columns"])
           /\ add_column(u, t, column))
          => (/\ doc_exists(store', <<u, t>>)
              /\ store'[<<u, t>>]["Columns"] = store[<<u, t>>]["Columns"])]_vars

\* Columns with every column of Key k removed, the others in their order
RECURSIVE Removed(_, _)
Removed(columns, k) ==
    IF columns = <<>> THEN <<>>
    ELSE IF Head(columns)["Key"] = k THEN Removed(Tail(columns), k)
         ELSE <<Head(columns)>> \o Removed(Tail(columns), k)

\* row is old without its field k, every other field as it was
IsWithoutField(row, old, k) ==
    /\ DOMAIN row = (DOMAIN old) \ {k}
    /\ \A f \in DOMAIN row : row[f] = old[f]

\* C3: delete_column(k) on an existing table returns success; afterwards
\* Columns is the previous Columns without the columns of Key k, in the same
\* order, and each row is the previous row at its index without field k; when
\* no column has Key k and no row has field k nothing changes.
C3_DeleteColumnCascade ==
    [][\A u \in Users, t \in TableIdArgs, k \in Keys :
          (Called("delete_column") /\ doc_exists(store, <<u, t>>) /\ delete_column(u, t, k))
          => LET old == store[<<u, t>>] IN
             /\ Succeeded
             /\ doc_exists(store', <<u, t>>)
             /\ LET new == store'[<<u, t>>] IN
                /\ new["Columns"] = Removed(old["Columns"], k)
                /\ Len(new["Rows"]) = Len(old["Rows"])
                /\ \A i \in 1..Len(old["Rows"]) :
                        IsWithoutField(new["Rows"][i], old["Rows"][i], k)
                /\ ((/\ k \notin KeysOf(old["Columns"])
                     /\ \A i \in 1..Len(old["Rows"]) : k \notin DOMAIN old["Rows"][i])
                    => store' = store)]_vars

\* a delete_column has succeeded and left a column and a row with a field
C3_Witness ==
    /\ last = [op |-> "delete_column", result |-> "success"]
    /\ \E r \in DOMAIN store :
          /\ store[r]["Columns"] = <<ColB>>
          /\ store[r]["Rows"] # <<>>
          /\ \A i \in 1..Len(store[r]["Rows"]) : DOMAIN store[r]["Rows"][i] = {"b"}

\* C4: update_row and delete_row with rowIndex < 0 or rowIndex >= n on an
\* existing table of n rows return the out-of-range error and leave the
\* document, as every document, unchanged.
C4_RowIndexBounds ==
    [][\/ last'.result = "Row index out of range" /\ store' = store
       \/ ~ \E u \in Users, t \in TableIdArgs, index \in IndexArgs \ {NoIndex} :
              /\ doc_exists(store, <<u, t>>)
              /\ (index[1] < 0 \/ index[1] >= Len(store[<<u, t>>]["Rows"]))
              /\ \/ Called("delete_row") /\ delete_row(u, t, index)
                 \/ Called("update_row") /\ \E updates \in RowArgs : update_row(u, t, index, updates)]_vars

\* an update_row or delete_row has been refused on a table that has rows
C4_Witness ==
    /\ last.op \in {"update_row", "delete_row"}
    /\ last.result = "Row index out of range"
    /\ \E r \in DOMAIN store : store[r]["Rows"] # <<>>

\* C10: delete_row with 0 <= i < n returns success; the new Rows has length
\* n - 1, equals the previous Rows at every position before i and the
\* previous Rows one position later from i on; Columns is unchanged.
C10_DeleteRowShifts ==
    [][\A u \in Users, t \in TableIdArgs, index \in IndexArgs \ {NoIndex} :
          (/\ Called("delete_row")
           /\ doc_exists(store, <<u, t>>)
           /\ 0 <= index[1] /\ index[1] < Len(store[<<u, t>>]["Rows"])
           /\ delete_row(u, t, index))
          => LET old == store[<<u, t>>]
                 i == index[1]
             IN
             /\ Succeeded
             /\ doc_exists(store', <<u, t>>)
             /\ LET new == store'[<<u, t>>] IN
                /\ Len(new["Rows"]) = Len(old["Rows"]) - 1
                /\ \A j \in 0..(Len(old["Rows"]) - 2) :
                        new["Rows"][j + 1] =
                            IF j < i THEN old["Rows"][j + 1] ELSE old["Rows"][j + 2]
                /\ new["Columns"] = old["Columns"]]_vars

\* a delete_row has succeeded and rows are left
C10_Witness ==
    /\ last = [op |-> "delete_row", result |-> "success"]
    /\ \E r \in DOMAIN store : store[r]["Rows"] # <<>>

----------------------------------------------------------------------------
(* Claims about concurrent requests (ConcSpec) *)

\* the request of worker w is an add_row on that table that has returned success
AddedRow(w, doc_ref) ==
    /\ inflight[w] # Idle
    /\ inflight[w].op = "add_row"
    /\ inflight[w].pc = "done"
    /\ inflight[w].result = "success"
    /\ inflight[w].outcome.ref = doc_ref

\* the number of rows the add_row of worker w found in the document it read
RowsRead(w) == Len(inflight[w].outcome.fields["Rows"]) - 1

\* C5: when two concurrent add_row calls on the same table have both returned
\* success, Rows holds both appended rows: its length is the length before the
\* two calls, which is what the first of them read, plus 2.
C5_NoLostUpdate ==
    \A doc_ref \in DOMAIN store :
        (\A w \in Workers : AddedRow(w, doc_ref))
            => \E w \in Workers : Len(store[doc_ref]["Rows"]) = RowsRead(w) + 2

----------------------------------------------------------------------------
(* Claims about the engine as a whole (Spec) *)

IsError(result) == result \notin {"success", "tableId"}

\* C6: a call that returns an error result has written nothing: the stored
\* documents are the same before and after it.
C6_NoWriteOnError == [][IsError(last'.result) => store' = store]_vars

\* a call has returned an error while a document is stored
C6_Witness == IsError(last.result) /\ last.op # "none" /\ DOMAIN store # {}

\* the step is a call of clone_table or of a column or row handler for (u, t),
\* with any arguments
TableCall(u, t) ==
    \/ Called("clone_table") /\ clone_table(u, t)
    \/ Called("add_column") /\ \E column \in EngineColumnArgs : add_column(u, t, column)
    \/ Called("update_column") /\
          \E key \in EngineKeyArgs, updates \in EngineColumnUpdates :
              update_column(u, t, key, updates)
    \/ Called("delete_column") /\ \E key \in EngineKeyArgs : delete_column(u, t, key)
    \/ Called("add_row") /\ \E row \in EngineRowArgs : add_row(u, t, row)
    \/ Called("update_row") /\
          \E index \in EngineIndexArgs, updates \in EngineRowArgs :
              update_row(u, t, index, updates)
    \/ Called("delete_row") /\ \E index \in EngineIndexArgs : delete_row(u, t, index)

\* the same, every required argument (column, columnKey, row, rowIndex) present
FullTableCall(u, t) ==
    \/ Called("clone_table") /\ clone_table(u, t)
    \/ Called("add_column") /\
          \E column \in EngineColumnArgs \ {EmptyDict} : add_column(u, t, column)
    \/ Called("update_column") /\
          \E key \in EngineKeyArgs \ {""}, updates \in EngineColumnUpdates :
              update_column(u, t, key, updates)
    \/ Called("delete_column") /\ \E key \in EngineKeyArgs \ {""} : delete_column(u, t, key)
    \/ Called("add_row") /\ \E row \in EngineRowArgs \ {EmptyDict} : add_row(u, t, row)
    \/ Called("update_row") /\
          \E index \in EngineIndexArgs \ {NoIndex}, updates \in EngineRowArgs :
              update_row(u, t, index, updates)
    \/ Called("delete_row") /\
          \E index \in EngineIndexArgs \ {NoIndex} : delete_row(u, t, index)

\* C7 as stated: for (owner, tableId) that resolves to no stored table,
\* clone_table and the column and row handlers return the not-found error and
\* create no document under that id.
C7_NotFoundAlways ==
    [][\A u \in Users, t \in TableIdArgs \ {""} :
          (~doc_exists(store, <<u, t>>) /\ TableCall(u, t))
          => (last'.result = "Table not found" /\ ~doc_exists(store', <<u, t>>))]_vars

\* C7 as amended: they return an error and create no document under that id;
\* the error is the not-found error whenever the call carries its required
\* column, columnKey, row or rowIndex.
C7_NotFound ==
    [][\A u \in Users, t \in TableIdArgs \ {""} :
          ~doc_exists(store, <<u, t>>)
          => /\ (IsError(last'.result) /\ ~doc_exists(store', <<u, t>>)) \/ ~TableCall(u, t)
             /\ last'.result = "Table not found" \/ ~FullTableCall(u, t)]_vars

\* a call on a table that was deleted has returned not found
C7_Witness ==
    /\ last.result = "Table not found"
    /\ last.op \in {"add_column", "update_column", "delete_column",
                    "add_row", "update_row", "delete_row"}
    /\ nextId > Cardinality(DOMAIN store)

\* the step is a call of a handler that takes a tableId, for (u, t)
AddressedTo(u, t) ==
    \/ TableCall(u, t)
    \/ Called("update_table") /\ \E updates \in TableUpdates : update_table(u, t, updates)
    \/ Called("delete_table") /\ delete_table(u, t)

\* every document but the one at doc_ref is stored as it was
OthersUnchanged(doc_ref) ==
    \A r \in DOMAIN store :
        r # doc_ref => (doc_exists(store', r) /\ store'[r] = store[r])

\* a call of each handler that ends in update() or delete(), as <<handler, arguments>>
EngineCalls ==
    {<<"update_table", updates, <<>>>> : updates \in TableUpdates}
    \cup {<<"delete_table", <<>>, <<>>>>}
    \cup {<<"add_column", column, <<>>>> : column \in EngineColumnArgs \ {EmptyDict}}
    \cup {<<"update_column", key, updates>> :
            key \in EngineKeyArgs \ {""}, updates \in EngineColumnUpdates}
    \cup {<<"delete_column", key, <<>>>> : key \in EngineKeyArgs \ {""}}
    \cup {<<"add_row", row, <<>>>> : row \in EngineRowArgs \ {EmptyDict}}
    \cup {<<"update_row", index, updates>> :
            index \in {<<0>>}, updates \in EngineRowArgs \ {EmptyDict}}
    \cup {<<"delete_row", index, <<>>>> : index \in {<<0>>}}

\* what the call c for doc_ref does when it reads the documents db
Run(db, doc_ref, c) ==
    LET u == doc_ref[1]
        t == doc_ref[2]
    IN CASE c[1] = "update_table" -> update_table_run(db, u, t, c[2])
         [] c[1] = "delete_table" -> delete_table_run(db, u, t)
         [] c[1] = "add_column" -> add_column_run(db, u, t, c[2])
         [] c[1] = "update_column" -> update_column_run(db, u, t, c[2], c[3])
         [] c[1] = "delete_column" -> delete_column_run(db, u, t, c[2])
         [] c[1] = "add_row" -> add_row_run(db, u, t, c[2])
         [] c[1] = "update_row" -> update_row_run(db, u, t, c[2], c[3])
         [] c[1] = "delete_row" -> delete_row_run(db, u, t, c[2])

\* calls a for r1 and b for r2, each a read then a write: b reads the same
\* and returns the same before and after a has written, and the two writes
\* end in the same documents whichever comes first
SameInAnyOrder(r1, a, r2, b) ==
    LET readA == Run(store, r1, a)
        readB == Run(store, r2, b)
        afterA == Apply(store, readA)
    IN /\ Run(afterA, r2, b) = readB
       /\ Result(afterA, readB) = Result(store, readB)
       /\ Apply(afterA, readB) = Apply(Apply(store, readB), readA)

\* a call of each kind of write: of Columns, of Rows, of both, of another
\* field, and the delete
EngineWrites == {c \in EngineCalls : c[1] \in {"add_column", "add_row", "delete_column",
                                               "update_table", "delete_table"}}

Independent ==
    \A r1, r2 \in DOMAIN store :
        r1 # r2 => \A a \in EngineWrites, b \in EngineCalls : SameInAnyOrder(r1, a, r2, b)

\* C8: a call addressed to table (owner, tableId) leaves every other stored
\* document as it was, whoever owns it, a clone and its source included, and a
\* create_table leaves every stored document as it was; two calls for
\* different stored tables, interleaved in any way, end in the documents that
\* running one after the other ends in.
C8_TableIndependence ==
    /\ [][/\ \A u \in Users, t \in TableIdArgs :
                OthersUnchanged(<<u, t>>) \/ ~AddressedTo(u, t)
          /\ Called("create_table") => OthersUnchanged(NoRef)]_vars
    /\ []Independent

\* a call has succeeded while two documents with different fields are stored
C8_Witness ==
    /\ last.result = "success"
    /\ \E r1, r2 \in DOMAIN store : r1 # r2 /\ store[r1] # store[r2]

\* C9: clone_table of an existing table of the caller creates exactly one
\* document, under the caller, with an id no stored document has, whose fields
\* are those of the source; every document stored before, the source included,
\* is unchanged.
C9_Clone ==
    [][\A u \in Users, t \in TableIdArgs :
          (Called("clone_table") /\ doc_exists(store, <<u, t>>) /\ clone_table(u, t))
          => /\ last'.result = "tableId"
             /\ OthersUnchanged(NoRef)
             /\ \E new \in DOMAIN store' :
                   /\ DOMAIN store' = (DOMAIN store) \cup {new}
                   /\ new[1] = u
                   /\ \A r \in DOMAIN store : r[2] # new[2]
                   /\ store'[new] = store[<<u, t>>]]_vars

\* a clone_table has succeeded and two documents with the same fields are stored
C9_Witness ==
    /\ last = [op |-> "clone_table", result |-> "tableId"]
    /\ \E r1, r2 \in DOMAIN store : r1 # r2 /\ store[r1] = store[r2] /\ store[r1]["Rows"] # <<>>

----------------------------------------------------------------------------
(* Claims about the consistency of rows and columns (TableSpec) *)

\* I2 for one document: the keys of every row are Keys of its Columns
RowKeysInColumns(doc) ==
    \A i \in 1..Len(doc["Rows"]) : DOMAIN doc["Rows"][i] \subseteq KeysOf(doc["Columns"])

\* C11 as stated (I2): right after any successful delete_column every row's
\* keys are Keys of the table's current Columns.
C11_RowKeysInColumnsAlways ==
    [][(Called("delete_column") /\ Succeeded)
          => \A r \in DOMAIN store' : RowKeysInColumns(store'[r])]_vars

\* C11: right after a successful delete_column(k) no row has the key k, a row
\* key that is not a Key of Columns was one before the call, and a table whose
\* rows' keys were all Keys of its Columns before the call still is one.
C11_DeleteColumnKeepsRowKeys ==
    [][\A u \in Users, t \in TableIdArgs, k \in Keys :
          (Called("delete_column") /\ doc_exists(store, <<u, t>>) /\ delete_column(u, t, k))
          => LET old == store[<<u, t>>]
                 new == store'[<<u, t>>]
             IN /\ Succeeded
                /\ \A i \in 1..Len(new["Rows"]) :
                      /\ k \notin DOMAIN new["Rows"][i]
                      /\ (DOMAIN new["Rows"][i]) \ KeysOf(new["Columns"])
                            = (DOMAIN old["Rows"][i]) \ (KeysOf(old["Columns"]) \cup {k})
                /\ RowKeysInColumns(old) => RowKeysInColumns(new)]_vars

\* a delete_column has succeeded on a table that keeps a column and a row
\* with a field, every row key a Key of Columns
C11_Witness ==
    /\ last = [op |-> "delete_column", result |-> "success"]
    /\ \E r \in DOMAIN store :
          /\ store[r]["Columns"] # <<>>
          /\ \E i \in 1..Len(store[r]["Rows"]) : DOMAIN store[r]["Rows"][i] # {}
          /\ RowKeysInColumns(store[r])

----------------------------------------------------------------------------
(* Claims about the mapper (MapperSpec) *)

\* the table that the create_table of this step has stored, and its one row
Created == store'[new_table_ref("u1", nextId)]
Imported == Created["Rows"][1]

\* C12 as stated: the imported row has exactly the column Keys as keys, and
\* under columns[i].Key the coerced values[i], or null when values is shorter,
\* for every column i.
C12_MapperPositionalAlways ==
    [][\A values \in PositionalValues :
          (/\ Called("create_table")
           /\ Created["Columns"] \in PositionalColumns
           /\ create_table("u1", Import(Created["Columns"], values)))
          => LET columns == Created["Columns"]
             IN /\ DOMAIN Imported = KeysOf(columns)
                /\ \A i \in 1..Len(columns) :
                      Imported[columns[i]["Key"]] =
                          IF i <= Len(values) THEN coerce(values[i]) ELSE PyNone]_vars

\* C12: the imported row has exactly the column Keys as keys, and under
\* columns[i].Key the coerced values[i], or null when values is shorter, for
\* every column i that no later column repeats the Key of; values at positions
\* from len(columns) on appear nowhere.
C12_MapperPositional ==
    [][\A values \in PositionalValues :
          (/\ Called("create_table")
           /\ Created["Columns"] \in PositionalColumns
           /\ create_table("u1", Import(Created["Columns"], values)))
          => LET columns == Created["Columns"]
             IN /\ DOMAIN Imported = KeysOf(columns)
                /\ \A i \in 1..Len(columns) :
                      (\A j \in (i + 1)..Len(columns) : columns[j]["Key"] # columns[i]["Key"])
                      => Imported[columns[i]["Key"]] =
                            IF i <= Len(values) THEN coerce(values[i]) ELSE PyNone
                /\ \A k \in DOMAIN Imported :
                      \E i \in 1..Len(columns) :
                          Imported[k] = IF i <= Len(values) THEN coerce(values[i]) ELSE PyNone]_vars

\* a row has been imported from more values than columns, and one from fewer
C12_Witness ==
    /\ last = [op |-> "create_table", result |-> "tableId"]
    /\ \E r \in DOMAIN store :
          /\ Len(store[r]["Columns"]) = 2
          /\ store[r]["Rows"] = <<[a |-> PyInt(1), b |-> PyNone]>>

\* chars is word in any mix of cases between two runs of whitespace
Spells(chars, word) ==
    \E lead, trail \in 0..Len(chars) :
        /\ lead + Len(word) + trail = Len(chars)
        /\ \A p \in 1..lead : chars[p] \in Whitespace
        /\ \A p \in 1..trail : chars[lead + Len(word) + p] \in Whitespace
        /\ \A p \in 1..Len(word) :
              \/ chars[lead + p] = word[p]
              \/ \E c \in 1..Len(LowerCase) :
                    LowerCase[c] = word[p] /\ UpperCase[c] = chars[lead + p]

\* C13: the mapper stores the boolean true (false) for a raw value exactly
\* when it is a string that trimmed and lower-cased is "true" ("false"), and
\* stores every other raw value as it is.
C13_MapperCoercion ==
    [][\A raw \in RawValues :
          (/\ Called("create_table")
           /\ Created["Columns"] = <<ColA>>
           /\ create_table("u1", Import(<<ColA>>, <<raw>>)))
          => Imported["a"] =
                IF raw.type = "str" /\ Spells(raw.val, StrTrue) THEN PyBool(TRUE)
                ELSE IF raw.type = "str" /\ Spells(raw.val, StrFalse) THEN PyBool(FALSE)
                ELSE raw]_vars

\* a row has been imported with the boolean false under its one column
C13_Witness ==
    /\ last = [op |-> "create_table", result |-> "tableId"]
    /\ \E r \in DOMAIN store :
          store[r]["Columns"] = <<ColA>> /\ store[r]["Rows"] = <<[a |-> PyBool(FALSE)]>>

----------------------------------------------------------------------------
(* Claims about the handlers' results (Spec, TableSpec, RowSpec) *)

\* the payload has the field and it is not empty
Given(data, field, empty) == field \in DOMAIN data /\ data[field] # empty

\* C14: create_table with Name or Columns missing or empty returns the
\* validation error and leaves the store as it was; with both given it returns
\* a table id and stores exactly one new document, under the caller and an id
\* no stored document has, with that Name and those Columns.
C14_CreateValidated ==
    [][\A u \in Users, data \in CreateArgs :
          (Called("create_table") /\ create_table(u, data))
          => IF Given(data, "Name", "") /\ Given(data, "Columns", <<>>)
             THEN /\ last'.result = "tableId"
                  /\ OthersUnchanged(NoRef)
                  /\ \E new \in DOMAIN store' :
                        /\ new \notin DOMAIN store
                        /\ DOMAIN store' = (DOMAIN store) \cup {new}
                        /\ new[1] = u
                        /\ \A r \in DOMAIN store : r[2] # new[2]
                        /\ store'[new]["Name"] = data["Name"]
                        /\ store'[new]["Columns"] = data["Columns"]
             ELSE /\ last'.result = "Name y Columns son requeridos"
                  /\ store' = store]_vars

\* a create_table has been refused while a table is stored
C14_Witness ==
    /\ last = [op |-> "create_table", result |-> "Name y Columns son requeridos"]
    /\ DOMAIN store # {}

\* C15: update_column whose updates give the column the Key of another column
\* of the table is rejected: it returns an error and the stored Columns list
\* is the same before and after.
C15_RenameOntoKeyRejected ==
    [][\A u \in Users, t \in TableIdArgs, key \in Keys, updates \in ColumnUpdates :
          (/\ Called("update_column")
           /\ doc_exists(store, <<u, t>>)
           /\ key \in KeysOf(store[<<u, t>>]["Columns"])
           /\ "Key" \in DOMAIN updates
           /\ updates["Key"] # key
           /\ updates["Key"] \in KeysOf(store[<<u, t>>]["Columns"])
           /\ update_column(u, t, key, updates))
          => (/\ IsError(last'.result)
              /\ doc_exists(store', <<u, t>>)
              /\ store'[<<u, t>>]["Columns"] = store[<<u, t>>]["Columns"])]_vars

\* C16: add_row with a non-empty record on an existing table returns success
\* and Rows becomes the previous rows, each at its index, followed by the
\* record, whatever its keys; with an empty record it returns an error and
\* the store is as it was.
C16_AddRowAppends ==
    [][\A u \in Users, t \in TableIdArgs, row \in RowArgs :
          (Called("add_row") /\ add_row(u, t, row))
          => IF row = EmptyDict
             THEN IsError(last'.result) /\ store' = store
             ELSE doc_exists(store, <<u, t>>)
                  => LET old == store[<<u, t>>]
                         new == store'[<<u, t>>]
                     IN /\ Succeeded
                        /\ Len(new["Rows"]) = Len(old["Rows"]) + 1
                        /\ \A i \in 1..Len(old["Rows"]) : new["Rows"][i] = old["Rows"][i]
                        /\ new["Rows"][Len(new["Rows"])] = row
                        /\ new["Columns"] = old["Columns"]]_vars

\* an add_row has succeeded and the last of two different rows has a key that
\* is not a Key of Columns
C16_Witness ==
    /\ last = [op |-> "add_row", result |-> "success"]
    /\ \E r \in DOMAIN store :
          LET rows == store[r]["Rows"] IN
          /\ Len(rows) = 2
          /\ rows[1] # rows[2]
          /\ ~(DOMAIN rows[2] \subseteq KeysOf(store[r]["Columns"]))

\* new is old with the fields of updates put over it
IsMerged(new, old, updates) ==
    /\ DOMAIN new = (DOMAIN old) \cup (DOMAIN updates)
    /\ \A f \in DOMAIN new : new[f] = IF f \in DOMAIN updates THEN updates[f] ELSE old[f]

\* C17: update_column with a columnKey on an existing table returns success;
\* Columns keeps its length, the first column of that Key becomes itself with
\* updates put over it, every other column stays as and where it was (so
\* Columns is unchanged when no column has the Key), and Rows is unchanged.
C17_UpdateColumnFirstMatch ==
    [][\A u \in Users, t \in TableIdArgs, key \in Keys, updates \in ColumnUpdates :
          (Called("update_column") /\ doc_exists(store, <<u, t>>)
              /\ update_column(u, t, key, updates))
          => LET old == store[<<u, t>>]["Columns"]
                 new == store'[<<u, t>>]["Columns"]
                 matches == {i \in 1..Len(old) : old[i]["Key"] = key}
             IN /\ Succeeded
                /\ store'[<<u, t>>]["Rows"] = store[<<u, t>>]["Rows"]
                /\ Len(new) = Len(old)
                /\ \A i \in 1..Len(old) :
                      IF i \in matches /\ \A j \in matches : i <= j
                      THEN IsMerged(new[i], old[i], updates)
                      ELSE new[i] = old[i]]_vars

\* an update_column has succeeded on the first of two columns of one Key and
\* has left the second as it was
C17_Witness ==
    /\ last = [op |-> "update_column", result |-> "success"]
    /\ \E r \in DOMAIN store :
          /\ store[r]["Columns"] = <<[Key |-> "a", Label |-> "y"], ColA>>
          /\ store[r]["Rows"] # <<>>

\* C18: update_row with an index i, 0 <= i < n, on an existing table returns
\* success; row i becomes itself with updates put over it, the rows at the
\* other indices, the number of rows and Columns stay as they were;
\* update_row without a rowIndex returns the validation error.
C18_UpdateRowMerges ==
    [][\A u \in Users, t \in TableIdArgs, index \in IndexArgs, updates \in RowArgs :
          (Called("update_row") /\ update_row(u, t, index, updates))
          => IF index = NoIndex
             THEN last'.result = "rowIndex son requeridos" /\ store' = store
             ELSE (/\ doc_exists(store, <<u, t>>)
                   /\ 0 <= index[1]
                   /\ index[1] < Len(store[<<u, t>>]["Rows"]))
                  => LET old == store[<<u, t>>]
                         new == store'[<<u, t>>]
                     IN /\ Succeeded
                        /\ Len(new["Rows"]) = Len(old["Rows"])
                        /\ \A j \in 0..(Len(old["Rows"]) - 1) :
                              IF j = index[1]
                              THEN IsMerged(new["Rows"][j + 1], old["Rows"][j + 1], updates)
                              ELSE new["Rows"][j + 1] = old["Rows"][j + 1]
                        /\ new["Columns"] = old["Columns"]]_vars

\* an update_row has succeeded and has left a row with two fields of
\* different values beside another row
C18_Witness ==
    /\ last = [op |-> "update_row", result |-> "success"]
    /\ \E r \in DOMAIN store :
          /\ Len(store[r]["Rows"]) = 2
          /\ \E i \in 1..2 :
                /\ DOMAIN store[r]["Rows"][i] = {"a", "b"}
                /\ store[r]["Rows"][i]["a"] # store[r]["Rows"][i]["b"]

----------------------------------------------------------------------------
(* Claims about a column request concurrent with a row request (ConcSpec) *)

ColumnOnly == {"add_column", "update_column"}
RowOnly == {"add_row", "update_row", "delete_row"}

\* the step is the doc_ref.update of worker w
Writes(w) ==
    /\ inflight[w] # Idle
    /\ inflight[w].pc = "read"
    /\ inflight'[w].pc = "done"

\* the write of w does to the store, and returns, what the handler of w does
\* when it runs from its read to its write at this moment
AsIfAtomic(w) ==
    LET now == Run(store, inflight[w].outcome.ref, inflight[w].call)
    IN /\ store' = Apply(store, now)
       /\ last'.result = Result(store, now)

\* the requests of v and w are one of kinds and one of others, w writing
Concurrent(v, w, kinds, others) ==
    /\ v # w
    /\ inflight[v] # Idle
    /\ Writes(w)
    /\ \/ inflight[v].op \in kinds /\ inflight[w].op \in others
       \/ inflight[v].op \in others /\ inflight[w].op \in kinds

\* both requests have returned success for the table doc_ref, v of kinds and
\* w of others
BothDone(v, w, doc_ref, kinds, others) ==
    /\ \A x \in {v, w} :
          /\ inflight[x] # Idle
          /\ inflight[x].pc = "done"
          /\ inflight[x].result = "success"
          /\ inflight[x].outcome.ref = doc_ref
    /\ inflight[v].op \in kinds
    /\ inflight[w].op \in others

\* C19: with a request that writes only Columns (add_column, update_column)
\* and one that writes only Rows (add_row, update_row, delete_row) on the same
\* table, in every interleaving of their reads and writes each write has the
\* effect of its handler run alone at that moment, so the final document is
\* that of the two run one after the other, and when both have succeeded the
\* document has the Columns of the one and the Rows of the other.
C19_ColumnAndRowConcurrent ==
    /\ [][\A v, w \in Workers : Concurrent(v, w, ColumnOnly, RowOnly) => AsIfAtomic(w)]_vars
    /\ [](\A v, w \in Workers, doc_ref \in DOMAIN store :
            BothDone(v, w, doc_ref, ColumnOnly, RowOnly)
            => /\ store[doc_ref]["Columns"] = inflight[v].outcome.fields["Columns"]
               /\ store[doc_ref]["Rows"] = inflight[w].outcome.fields["Rows"])

\* the same with delete_column, which writes Columns and Rows, in the place
\* of the request that writes only Columns: this one does not hold, the rows
\* that delete_column has cleaned being overwritten by the stale write of the
\* row request, or the reverse
C19_WithDeleteColumn ==
    [][\A v, w \in Workers : Concurrent(v, w, {"delete_column"}, RowOnly) => AsIfAtomic(w)]_vars

\* an add_column and an add_row on the same table have both succeeded, and
\* the table has the new column and the new row
C19_Witness ==
    \E v, w \in Workers, doc_ref \in DOMAIN store :
        /\ BothDone(v, w, doc_ref, {"add_column"}, {"add_row"})
        /\ store[doc_ref]["Columns"] = <<ColA, ColB>>
        /\ store[doc_ref]["Rows"] = <<[a |-> CellX], [a |-> CellY]>>

====
